---------------------------- MODULE Spec2Model ----------------------------
(***************************************************************************)
(* A model of file_integrity_monitor.py: a file-integrity monitor that     *)
(* hashes every file of a directory tree (scan_directory), persists the    *)
(* snapshot as JSON in file_hashes.json of the working directory           *)
(* (save_hashes / load_hashes) and reports added, removed and changed      *)
(* paths (compare_hashes).                                                 *)
(*                                                                         *)
(* Strings (paths, file contents, digests, the JSON text) are sequences of *)
(* one-character strings, so that serialisation and parsing are computed   *)
(* character by character.                                                 *)
(***************************************************************************)
EXTENDS Naturals, Sequences, FiniteSets

VARIABLES
    present,      \* the files of the tree that exist (file ids)
    content,      \* content of each tree file (a fixed default when absent)
    unreadable,   \* existing files open() fails on (permission denied)
    rootExists,   \* whether the directory given on the command line exists
    cwdInTree,    \* whether the working directory is the scanned root
    dbExists,     \* whether HASH_DB exists in the working directory
    dbText,       \* the characters of HASH_DB
    mode,         \* what the last invocation was ("none" once the tree changed)
    algorithm,    \* args.algorithm of the last invocation
    exit,         \* exit status of the last invocation
    hashes,       \* main: hashes / new_hashes, the snapshot the last scan returned
    old_hashes,   \* main: old_hashes, the baseline the last check loaded
    errors,       \* the paths of the "Error hashing ..." lines the last scan printed
    added,        \* compare_hashes: the three lists it returned
    removed,
    changed,
    inits,        \* number of init invocations so far
    everInit,     \* history: an init invocation has completed
    initSnap      \* history: the snapshot the most recent init scanned

vars == <<present, content, unreadable, rootExists, cwdInTree, dbExists, dbText,
          mode, algorithm, exit, hashes, old_hashes, errors, added, removed,
          changed, inits, everInit, initSnap>>

---------------------------------------------------------------------------
(* Bounds *)

\* init invocations in one behaviour (the store nests its own digest when it
\* lies in the scanned tree, so its text grows with every init)
MaxInits == 2

\* number of distinct paths the snapshots of SpecPure are drawn over
MaxKeys == 3

---------------------------------------------------------------------------
(* Characters *)

QUOTE == "\""

BSLASH == "\\"

NL == "\n"

SPACE == " "

RECURSIVE ConcatRange(_, _, _)
\* ss[lo] \o ... \o ss[hi], by halves (the recursion is Len's logarithm deep)
ConcatRange(ss, lo, hi) ==
    IF lo > hi THEN <<>>
    ELSE IF lo = hi THEN ss[lo]
    ELSE LET mid == (lo + hi) \div 2
         IN ConcatRange(ss, lo, mid) \o ConcatRange(ss, mid + 1, hi)

\* the concatenation of a sequence of sequences
Concat(ss) == ConcatRange(ss, 1, Len(ss))

Range(s) == { s[i] : i \in 1..Len(s) }

\* the empty dict {}
EmptyDict == <<>>

\* d[k] = v on a dict (a later assignment to the same key replaces the value)
DictPut(d, k, v) == [x \in (DOMAIN d) \cup {k} |-> IF x = k THEN v ELSE d[x]]

---------------------------------------------------------------------------
(* json.dump(hashes, f, indent=4) and json.load(f), restricted to the      *)
(* documents the program writes: one object whose keys and values are      *)
(* strings.                                                                *)

\* an encoder that escapes the quote and the line break but not the backslash
EscapeCharKeepBackslash(c) ==
    IF c = QUOTE THEN <<BSLASH, QUOTE>>
    ELSE IF c = NL THEN <<BSLASH, "n">>
    ELSE <<c>>

\* json.encoder's py_encode_basestring_ascii on one character
EscapeChar(c) ==
    IF c = QUOTE THEN <<BSLASH, QUOTE>>
    ELSE IF c = BSLASH THEN <<BSLASH, BSLASH>>
    ELSE IF c = NL THEN <<BSLASH, "n">>
    ELSE <<c>>

\* a str as a JSON string literal
JsonString(s) ==
    <<QUOTE>> \o Concat([i \in 1..Len(s) |-> EscapeChar(s[i])]) \o <<QUOTE>>

\* indent=4: every member starts on a new line behind four spaces
Indent == <<NL, SPACE, SPACE, SPACE, SPACE>>

\* one member, "key": "value"
JsonItem(k, v) == JsonString(k) \o <<":", SPACE>> \o JsonString(v)

\* json.dump of the dict d whose iteration (insertion) order is keys
json_dump(d, keys) ==
    IF keys = <<>> THEN <<"{", "}">>
    ELSE <<"{">>
         \o Concat([i \in 1..Len(keys) |->
                      (IF i = 1 THEN <<>> ELSE <<",">>)
                      \o Indent \o JsonItem(keys[i], d[keys[i]])])
         \o <<NL, "}">>

\* what a failed parse returns (json.JSONDecodeError)
JsonFail == [ok |-> FALSE, val |-> EmptyDict, next |-> 0]

RECURSIVE SkipWs(_, _)
\* json.decoder WHITESPACE.match: the first index at or after i that holds no
\* white space
SkipWs(t, i) ==
    IF i <= Len(t) /\ t[i] \in {SPACE, NL} THEN SkipWs(t, i + 1) ELSE i

\* json.decoder.py_scanstring on the one character t[p]; esc says that the
\* character before it was an unescaped backslash. [done, ok, esc, val, next]:
\* done when the string ended (ok) or cannot be a string (~ok)
ScanChar(t, p, esc) ==
    LET c == t[p]
        More(e, out) ==
            [done |-> FALSE, ok |-> TRUE, esc |-> e, val |-> out, next |-> p + 1]
        Stop(good) ==
            [done |-> TRUE, ok |-> good, esc |-> FALSE, val |-> <<>>,
             next |-> p + 1]
    IN IF esc
       THEN IF c = "n" THEN More(FALSE, <<NL>>)
            ELSE IF c \in {QUOTE, BSLASH, "/"} THEN More(FALSE, <<c>>)
            ELSE Stop(FALSE)
       ELSE IF c = QUOTE THEN Stop(TRUE)
            ELSE IF c = BSLASH THEN More(TRUE, <<>>)
            ELSE IF c = NL THEN Stop(FALSE)
            ELSE More(FALSE, <<c>>)

RECURSIVE ScanRange(_, _, _, _)
\* py_scanstring over t[lo..hi], by halves: the right half is scanned only
\* when the string did not end in the left one
ScanRange(t, lo, hi, esc) ==
    IF lo = hi THEN ScanChar(t, lo, esc)
    ELSE LET mid == (lo + hi) \div 2
             l == ScanRange(t, lo, mid, esc)
         IN IF l.done THEN l
            ELSE LET r == ScanRange(t, mid + 1, hi, l.esc)
                 IN [done |-> r.done, ok |-> r.ok, esc |-> r.esc,
                     val |-> l.val \o r.val, next |-> r.next]

\* json.decoder.py_scanstring: t[i] is the character after the opening
\* quote; [ok, val, next], next the index after the closing quote
ScanString(t, i) ==
    IF i > Len(t) THEN JsonFail
    ELSE LET r == ScanRange(t, i, Len(t), FALSE)
         IN IF r.done /\ r.ok
            THEN [ok |-> TRUE, val |-> r.val, next |-> r.next]
            ELSE JsonFail

RECURSIVE ParseMembers(_, _, _)
\* json.decoder.JSONObject's loop: t[i] is to open the next key; a repeated
\* key keeps its last value
ParseMembers(t, i, acc) ==
    IF i > Len(t) \/ t[i] # QUOTE THEN JsonFail
    ELSE
      LET k == ScanString(t, i + 1)
          c == SkipWs(t, k.next)
      IN IF ~k.ok \/ c > Len(t) \/ t[c] # ":" THEN JsonFail
         ELSE
           LET b == SkipWs(t, c + 1)
           IN IF b > Len(t) \/ t[b] # QUOTE THEN JsonFail
              ELSE
                LET v == ScanString(t, b + 1)
                    e == SkipWs(t, v.next)
                IN IF ~v.ok \/ e > Len(t) THEN JsonFail
                   ELSE IF t[e] = "}"
                        THEN [ok |-> TRUE,
                              val |-> DictPut(acc, k.val, v.val),
                              next |-> e + 1]
                   ELSE IF t[e] = ","
                        THEN ParseMembers(t, SkipWs(t, e + 1),
                                          DictPut(acc, k.val, v.val))
                   ELSE JsonFail

\* json.load of the text t: [ok, val], val the dict when ok
json_load(t) ==
    LET i == SkipWs(t, 1)
    IN IF i > Len(t) \/ t[i] # "{" THEN JsonFail
       ELSE
         LET j == SkipWs(t, i + 1)
             r == IF j <= Len(t) /\ t[j] = "}"
                  THEN [ok |-> TRUE, val |-> EmptyDict, next |-> j + 1]
                  ELSE ParseMembers(t, j, EmptyDict)
         IN IF r.ok /\ SkipWs(t, r.next) = Len(t) + 1 THEN r ELSE JsonFail

---------------------------------------------------------------------------
(* The file system the program runs on *)

\* HASH_DB = "file_hashes.json"
HASH_DB == <<"f", "i", "l", "e", "_", "h", "a", "s", "h", "e", "s", ".",
             "j", "s", "o", "n">>

\* args.directory: the tree every invocation monitors
DIRECTORY == <<"/", "D">>

\* os.path.join(root, name) of a root without a trailing separator and a
\* relative name
PathJoin(root, name) == root \o <<"/">> \o name

\* the one subdirectory of the tree
SUBDIR == PathJoin(DIRECTORY, <<"s">>)

\* the files of the tree other than the store: /D/a and /D/s/q"
FileIds == {"f1", "f2"}

\* the store, as a file of the tree when the working directory is the root
DB == "db"

FileRoot(f) == IF f = "f2" THEN SUBDIR ELSE DIRECTORY

FileName(f) ==
    IF f = "f1" THEN <<"a">> ELSE IF f = "f2" THEN <<"q", QUOTE>> ELSE HASH_DB

\* what somebody may write into a tree file: /D/a is rewritten with new
\* content, /D/s/q" only ever created with the same content
Contents(f) == IF f = "f1" THEN {<<"x">>, <<"y">>} ELSE {<<"x">>}

NoContent == <<>>

\* the files os.scandir lists in root, in directory order (stable while the
\* directory is unchanged); the store is listed when it lies in the root
ListDir(root) ==
    SelectSeq(<<"f1", DB, "f2">>,
              LAMBDA f : /\ FileRoot(f) = root
                         /\ IF f = DB THEN cwdInTree /\ dbExists
                                      ELSE f \in present)

\* os.walk(directory), top-down with onerror=None: the (root, files) pairs;
\* a directory that cannot be listed yields nothing and raises nothing
Walk(directory) ==
    IF ~rootExists THEN <<>>
    ELSE << <<directory, ListDir(directory)>>, <<SUBDIR, ListDir(SUBDIR)>> >>

\* open(file_path, "rb") and the reads: [ok, data]
ReadFile(f) ==
    IF f = DB
    THEN [ok |-> cwdInTree /\ dbExists, data |-> dbText]
    ELSE [ok |-> rootExists /\ f \in present /\ f \notin unreadable,
          data |-> content[f]]

---------------------------------------------------------------------------
(* hashlib *)

\* hashlib.algorithms_available: the --algorithm choices. sha256 and
\* shake_128 are guaranteed on every platform; md5-sha1 comes from OpenSSL
algorithms_available == {"sha256", "shake_128", "md5-sha1"}

\* what an operator may type after --algorithm
Identifiers == algorithms_available \cup {"nope"}

\* the names hashlib has a constructor attribute for: getattr(hashlib, name)()
\* raises AttributeError for any other
HashlibConstructors == {"sha256", "shake_128"}

\* the constructors whose hexdigest() takes no length: shake_128().hexdigest()
\* raises TypeError
FixedLength == {"sha256"}

\* hexdigest of data: a collision-free stand-in, the algorithm's name
\* followed by the data
HexDigest(alg, data) == <<alg>> \o data

\* calculate_file_hash(file_path, algorithm) on the file f that file_path
\* names: [ok, digest]; ~ok when it raises
calculate_file_hash(f, alg) ==
    IF alg \notin HashlibConstructors THEN [ok |-> FALSE, digest |-> <<>>]
    ELSE IF ~ReadFile(f).ok THEN [ok |-> FALSE, digest |-> <<>>]
    ELSE IF alg \notin FixedLength THEN [ok |-> FALSE, digest |-> <<>>]
    ELSE [ok |-> TRUE, digest |-> HexDigest(alg, ReadFile(f).data)]

---------------------------------------------------------------------------
(* scan_directory *)

\* the (root, name, file) triples of a walk, in the order the two loops of
\* scan_directory visit them
WalkEntries(walk) ==
    Concat([i \in 1..Len(walk) |->
              [j \in 1..Len(walk[i][2]) |->
                 [root |-> walk[i][1],
                  name |-> FileName(walk[i][2][j]),
                  file |-> walk[i][2][j]]]])

RECURSIVE ScanLoopAbort(_, _, _)
\* a loop without the try: the first file that fails to hash ends the scan
ScanLoopAbort(entries, alg, acc) ==
    IF entries = <<>> THEN acc
    ELSE
      LET e == Head(entries)
          file_path == PathJoin(e.root, e.name)
          h == calculate_file_hash(e.file, alg)
      IN IF h.ok
         THEN ScanLoopAbort(Tail(entries), alg,
                            [hashes |-> DictPut(acc.hashes, file_path, h.digest),
                             keys |-> Append(acc.keys, file_path),
                             errors |-> acc.errors])
         ELSE [hashes |-> acc.hashes,
               keys |-> acc.keys,
               errors |-> Append(acc.errors, file_path)]

RECURSIVE ScanLoop(_, _, _)
\* the loop body over the entries still to visit: acc is [hashes, keys,
\* errors], keys the insertion order of hashes
ScanLoop(entries, alg, acc) ==
    IF entries = <<>> THEN acc
    ELSE
      LET e == Head(entries)
          file_path == PathJoin(e.root, e.name)
          h == calculate_file_hash(e.file, alg)
      IN IF h.ok
         THEN ScanLoop(Tail(entries), alg,
                       [hashes |-> DictPut(acc.hashes, file_path, h.digest),
                        keys |-> IF file_path \in DOMAIN acc.hashes
                                 THEN acc.keys
                                 ELSE Append(acc.keys, file_path),
                        errors |-> acc.errors])
         ELSE ScanLoop(Tail(entries), alg,
                       [hashes |-> acc.hashes,
                        keys |-> acc.keys,
                        errors |-> Append(acc.errors, file_path)])

\* scan_directory over the entries of a walk
ScanEntries(entries, alg) ==
    ScanLoop(entries, alg,
             [hashes |-> EmptyDict, keys |-> <<>>, errors |-> <<>>])

\* scan_directory(directory, algorithm)
scan_directory(directory, alg) ==
    ScanEntries(WalkEntries(Walk(directory)), alg)

---------------------------------------------------------------------------
(* load_hashes, save_hashes, compare_hashes *)

\* the lists a loop over the set S can build: every order, each element once
Orders(S) ==
    { q \in [1..Cardinality(S) -> S] : \A x \in S : \E i \in DOMAIN q : q[i] = x }

\* a load without the os.path.exists test: open() raises when there is no
\* store
load_hashes_unguarded ==
    IF ~dbExists THEN [ok |-> FALSE, val |-> EmptyDict]
    ELSE LET r == json_load(dbText) IN [ok |-> r.ok, val |-> r.val]

\* load_hashes(): [ok, val]; ~ok when json.load raises
load_hashes ==
    IF ~dbExists THEN [ok |-> TRUE, val |-> EmptyDict]
    ELSE LET r == json_load(dbText) IN [ok |-> r.ok, val |-> r.val]

\* a save that updates the stored dict instead of replacing it
save_hashes_merge(d, keys) ==
    LET prior == IF dbExists THEN json_load(dbText).val ELSE EmptyDict
        kept == CHOOSE q \in Orders((DOMAIN prior) \ (DOMAIN d)) : TRUE
    IN json_dump([p \in (DOMAIN prior) \cup (DOMAIN d) |->
                    IF p \in DOMAIN d THEN d[p] ELSE prior[p]],
                 kept \o keys)

\* save_hashes(hashes): the text of HASH_DB afterwards; open(db_path, "w")
\* truncates, so nothing of the old text stays
save_hashes(d, keys) == json_dump(d, keys)

\* a comparison that reports every path of both snapshots as changed,
\* whatever the digests
compare_hashes_any_common(old, new) ==
    LET old_files == DOMAIN old
        new_files == DOMAIN new
    IN { [added |-> a, removed |-> r, changed |-> c] :
           a \in Orders(new_files \ old_files),
           r \in Orders(old_files \ new_files),
           c \in Orders(new_files \cap old_files) }

\* a comparison that reports every path of the new snapshot as added
compare_hashes_all_new(old, new) ==
    LET old_files == DOMAIN old
        new_files == DOMAIN new
    IN { [added |-> a, removed |-> r, changed |-> c] :
           a \in Orders(new_files),
           r \in Orders(old_files \ new_files),
           c \in Orders({ file \in new_files \cap old_files :
                            old[file] # new[file] }) }

\* compare_hashes(old_hashes, new_hashes): the results it can return; the
\* iteration order of a set of str is not fixed
compare_hashes(old, new) ==
    LET old_files == DOMAIN old
        new_files == DOMAIN new
    IN { [added |-> a, removed |-> r, changed |-> c] :
           a \in Orders(new_files \ old_files),
           r \in Orders(old_files \ new_files),
           c \in Orders({ file \in new_files \cap old_files :
                            old[file] # new[file] }) }

---------------------------------------------------------------------------
(* The monitored tree changes between invocations *)

\* a finished invocation's output belongs to the tree it ran on: the record
\* of the last invocation is dropped when the tree changes
Forget ==
    /\ mode' = "none"
    /\ algorithm' = "none"
    /\ exit' = 0
    /\ hashes' = EmptyDict
    /\ old_hashes' = EmptyDict
    /\ errors' = <<>>
    /\ added' = <<>>
    /\ removed' = <<>>
    /\ changed' = <<>>

\* somebody creates or rewrites a file of the tree
WriteFile(f, c) ==
    /\ rootExists
    /\ f \notin present \/ content[f] # c
    /\ present' = present \cup {f}
    /\ content' = [content EXCEPT ![f] = c]
    /\ Forget
    /\ UNCHANGED <<unreadable, rootExists, cwdInTree, dbExists, dbText,
                   inits, everInit, initSnap>>

\* somebody deletes a file of the tree
RemoveFile(f) ==
    /\ f \in present
    /\ present' = present \ {f}
    /\ content' = [content EXCEPT ![f] = NoContent]
    /\ unreadable' = unreadable \ {f}
    /\ Forget
    /\ UNCHANGED <<rootExists, cwdInTree, dbExists, dbText, inits, everInit,
                   initSnap>>

\* somebody takes away or gives back the permission to read a file
Chmod(f) ==
    /\ f \in present
    /\ unreadable' = IF f \in unreadable THEN unreadable \ {f}
                                         ELSE unreadable \cup {f}
    /\ Forget
    /\ UNCHANGED <<present, content, rootExists, cwdInTree, dbExists, dbText,
                   inits, everInit, initSnap>>

\* somebody removes the whole tree (not while the program's working directory
\* is its root)
RemoveRoot ==
    /\ rootExists
    /\ ~cwdInTree
    /\ rootExists' = FALSE
    /\ present' = {}
    /\ content' = [f \in FileIds |-> NoContent]
    /\ unreadable' = {}
    /\ Forget
    /\ UNCHANGED <<cwdInTree, dbExists, dbText, inits, everInit, initSnap>>

\* somebody creates the root directory again, empty
MakeRoot ==
    /\ ~rootExists
    /\ rootExists' = TRUE
    /\ Forget
    /\ UNCHANGED <<present, content, unreadable, cwdInTree, dbExists, dbText,
                   inits, everInit, initSnap>>

---------------------------------------------------------------------------
(* main() *)

\* parser.parse_args() rejects an --algorithm outside its choices: argparse
\* prints the usage and exits with status 2
ArgError(alg) ==
    /\ alg \notin algorithms_available
    /\ mode' = "usage"
    /\ algorithm' = alg
    /\ exit' = 2
    /\ hashes' = EmptyDict
    /\ old_hashes' = EmptyDict
    /\ errors' = <<>>
    /\ added' = <<>>
    /\ removed' = <<>>
    /\ changed' = <<>>
    /\ UNCHANGED <<present, content, unreadable, rootExists, cwdInTree,
                   dbExists, dbText, inits, everInit, initSnap>>

\* main() with --init: scan, then save
MainInit(alg) ==
    /\ alg \in algorithms_available
    /\ inits < MaxInits
    /\ LET s == scan_directory(DIRECTORY, alg)
       IN /\ hashes' = s.hashes
          /\ errors' = s.errors
          /\ dbText' = save_hashes(s.hashes, s.keys)
          /\ initSnap' = s.hashes
    /\ dbExists' = TRUE
    /\ mode' = "init"
    /\ algorithm' = alg
    /\ exit' = 0
    /\ old_hashes' = EmptyDict
    /\ added' = <<>>
    /\ removed' = <<>>
    /\ changed' = <<>>
    /\ inits' = inits + 1
    /\ everInit' = TRUE
    /\ UNCHANGED <<present, content, unreadable, rootExists, cwdInTree>>

\* a check that makes the snapshot it scanned the new baseline
MainCheckRebaseline(alg) ==
    /\ alg \in algorithms_available
    /\ mode' = "check"
    /\ algorithm' = alg
    /\ exit' = 0
    /\ LET s == scan_directory(DIRECTORY, alg)
       IN /\ old_hashes' = load_hashes.val
          /\ hashes' = s.hashes
          /\ errors' = s.errors
          /\ dbText' = save_hashes(s.hashes, s.keys)
          /\ \E r \in compare_hashes(load_hashes.val, s.hashes) :
                /\ added' = r.added
                /\ removed' = r.removed
                /\ changed' = r.changed
    /\ dbExists' = TRUE
    /\ UNCHANGED <<present, content, unreadable, rootExists, cwdInTree,
                   inits, everInit, initSnap>>

\* main() without --init: load, scan, compare, print. A store json.load
\* cannot parse ends the invocation with a traceback (status 1)
MainCheck(alg) ==
    /\ alg \in algorithms_available
    /\ mode' = "check"
    /\ algorithm' = alg
    /\ LET old == load_hashes
       IN
       IF ~old.ok
       THEN /\ exit' = 1
            /\ hashes' = EmptyDict
            /\ old_hashes' = EmptyDict
            /\ errors' = <<>>
            /\ added' = <<>>
            /\ removed' = <<>>
            /\ changed' = <<>>
       ELSE LET s == scan_directory(DIRECTORY, alg)
            IN /\ exit' = 0
               /\ old_hashes' = old.val
               /\ hashes' = s.hashes
               /\ errors' = s.errors
               /\ \E r \in compare_hashes(old.val, s.hashes) :
                     /\ added' = r.added
                     /\ removed' = r.removed
                     /\ changed' = r.changed
    /\ UNCHANGED <<present, content, unreadable, rootExists, cwdInTree,
                   dbExists, dbText, inits, everInit, initSnap>>

Init ==
    /\ present = FileIds
    /\ content = [f \in FileIds |-> <<"x">>]
    /\ unreadable = {}
    /\ rootExists = TRUE
    /\ cwdInTree \in BOOLEAN
    /\ dbExists = FALSE
    /\ dbText = <<>>
    /\ mode = "none"
    /\ algorithm = "none"
    /\ exit = 0
    /\ hashes = EmptyDict
    /\ old_hashes = EmptyDict
    /\ errors = <<>>
    /\ added = <<>>
    /\ removed = <<>>
    /\ changed = <<>>
    /\ inits = 0
    /\ everInit = FALSE
    /\ initSnap = EmptyDict

Next ==
    \/ \E f \in FileIds : \E c \in Contents(f) : WriteFile(f, c)
    \/ \E f \in FileIds : RemoveFile(f)
    \/ \E f \in FileIds : Chmod(f)
    \/ RemoveRoot
    \/ MakeRoot
    \/ \E alg \in Identifiers : ArgError(alg)
    \/ \E alg \in Identifiers : MainInit(alg)
    \/ \E alg \in Identifiers : MainCheck(alg)

Spec == Init /\ [][Next]_vars

---------------------------------------------------------------------------
(* compare_hashes, save_hashes and load_hashes as functions of their       *)
(* arguments: the snapshots are drawn from a bounded set instead of being  *)
(* scanned                                                                 *)

\* paths the drawn snapshots are keyed by: two of the tree, one with
\* backslashes (the second before an n) and one with a line break
KeyPool == << PathJoin(DIRECTORY, <<"a">>),
              PathJoin(SUBDIR, <<"q", QUOTE>>),
              <<"C", ":", BSLASH, "n", BSLASH>>,
              <<"c", NL, "d">> >>

Keys == { KeyPool[i] : i \in 1..(IF MaxKeys < Len(KeyPool) THEN MaxKeys
                                                         ELSE Len(KeyPool)) }

Digests == { HexDigest("sha256", <<"x">>), HexDigest("sha256", <<"y">>) }

\* every dict from some of the keys to digests
Snapshots == UNION { [K -> Digests] : K \in SUBSET Keys }

\* added, removed, changed = compare_hashes(old_hashes, new_hashes)
CallCompare ==
    /\ mode \in {"start", "loaded"}
    /\ \E r \in compare_hashes(old_hashes, hashes) :
          /\ added' = r.added
          /\ removed' = r.removed
          /\ changed' = r.changed
    /\ mode' = "compared"
    /\ UNCHANGED <<present, content, unreadable, rootExists, cwdInTree,
                   dbExists, dbText, algorithm, exit, hashes, old_hashes,
                   errors, inits, everInit, initSnap>>

\* save_hashes(hashes), the dict iterating in the order keys
CallSave(keys) ==
    /\ mode = "start"
    /\ dbExists' = TRUE
    /\ dbText' = save_hashes(hashes, keys)
    /\ mode' = "saved"
    /\ UNCHANGED <<present, content, unreadable, rootExists, cwdInTree,
                   algorithm, exit, hashes, old_hashes, errors, added, removed,
                   changed, inits, everInit, initSnap>>

\* old_hashes = load_hashes()
CallLoad ==
    /\ mode \in {"start", "saved"}
    /\ LET old == load_hashes
       IN IF old.ok
          THEN /\ old_hashes' = old.val
               /\ mode' = "loaded"
               /\ exit' = 0
          ELSE /\ old_hashes' = EmptyDict
               /\ mode' = "raised"
               /\ exit' = 1
    /\ UNCHANGED <<present, content, unreadable, rootExists, cwdInTree,
                   dbExists, dbText, algorithm, hashes, errors, added, removed,
                   changed, inits, everInit, initSnap>>

InitPure ==
    /\ present = {}
    /\ content = [f \in FileIds |-> NoContent]
    /\ unreadable = {}
    /\ rootExists = FALSE
    /\ cwdInTree = FALSE
    /\ dbExists = FALSE
    /\ dbText = <<>>
    /\ mode = "start"
    /\ algorithm = "none"
    /\ exit = 0
    /\ hashes \in Snapshots
    /\ old_hashes \in Snapshots
    /\ errors = <<>>
    /\ added = <<>>
    /\ removed = <<>>
    /\ changed = <<>>
    /\ inits = 0
    /\ everInit = FALSE
    /\ initSnap = EmptyDict

NextPure ==
    \/ CallCompare
    \/ \E keys \in Orders(DOMAIN hashes) : CallSave(keys)
    \/ CallLoad

SpecPure == InitPure /\ [][NextPure]_vars

---------------------------------------------------------------------------
(* Properties *)

\* the path scan_directory gives the file f
FilePath(f) == PathJoin(FileRoot(f), FileName(f))

\* a list holds no element twice
NoRepeat(q) == Cardinality(Range(q)) = Len(q)

\* the algorithm resolves to a hash routine calculate_file_hash can use
Resolvable(alg) == alg \in HashlibConstructors /\ alg \in FixedLength

\* C1: compare_hashes returns, as sets, added = keys(new) minus keys(old),
\* removed = keys(old) minus keys(new), and changed = the paths of both whose
\* digests differ; a path of both with equal digests is in none of the three.
C1_DiffSets ==
    mode = "compared" =>
      /\ Range(added) = (DOMAIN hashes) \ (DOMAIN old_hashes)
      /\ Range(removed) = (DOMAIN old_hashes) \ (DOMAIN hashes)
      /\ Range(changed) = { p \in (DOMAIN old_hashes) \cap (DOMAIN hashes) :
                              old_hashes[p] # hashes[p] }
      /\ \A p \in (DOMAIN old_hashes) \cap (DOMAIN hashes) :
            old_hashes[p] = hashes[p] =>
               p \notin Range(added) \cup Range(removed) \cup Range(changed)

\* a comparison that reported a changed path and left an unchanged one out
C1_Witness ==
    /\ mode = "compared"
    /\ changed # <<>>
    /\ \E p \in (DOMAIN old_hashes) \cap (DOMAIN hashes) :
          old_hashes[p] = hashes[p]

\* C2: every path of keys(old) union keys(new) is in exactly one of Added,
\* Removed, Changed, unchanged; the three lists are pairwise disjoint, none
\* holds a path twice, and none holds a path outside the union.
C2_Partition ==
    mode = "compared" =>
      LET A == Range(added)
          R == Range(removed)
          C == Range(changed)
          U == { p \in (DOMAIN old_hashes) \cap (DOMAIN hashes) :
                   old_hashes[p] = hashes[p] }
          All == (DOMAIN old_hashes) \cup (DOMAIN hashes)
      IN /\ A \cap R = {} /\ A \cap C = {} /\ R \cap C = {}
         /\ NoRepeat(added) /\ NoRepeat(removed) /\ NoRepeat(changed)
         /\ A \cup R \cup C \subseteq All
         /\ \A p \in All :
               Cardinality({ X \in {"A", "R", "C", "U"} :
                               \/ X = "A" /\ p \in A
                               \/ X = "R" /\ p \in R
                               \/ X = "C" /\ p \in C
                               \/ X = "U" /\ p \in U }) = 1

\* a comparison with a path in each of the three lists
C2_Witness ==
    /\ mode = "compared"
    /\ added # <<>>
    /\ removed # <<>>
    /\ changed # <<>>

\* C3: a file that fails to hash does not abort the scan: the invocation
\* completes, the snapshot holds exactly the files that hash, every failing
\* file is reported once, and the entries are those of a scan of the tree
\* without the failing files.
C3_PartialFailure ==
    [][ mode' \in {"init", "check"} =>
          LET entries == WalkEntries(Walk(DIRECTORY))
              Good(e) == calculate_file_hash(e.file, algorithm').ok
              good == SelectSeq(entries, Good)
              bad == SelectSeq(entries, LAMBDA e : ~Good(e))
          IN /\ exit' = 0
             /\ DOMAIN hashes' =
                  { PathJoin(good[i].root, good[i].name) : i \in DOMAIN good }
             /\ Cardinality(DOMAIN hashes') = Len(good)
             /\ errors' =
                  [i \in DOMAIN bad |-> PathJoin(bad[i].root, bad[i].name)]
             /\ hashes' = ScanEntries(good, algorithm').hashes
      ]_vars

\* a scan of two files, one of which could not be read
C3_Witness ==
    /\ mode \in {"init", "check"}
    /\ algorithm = "sha256"
    /\ Len(errors) = 1
    /\ Cardinality(DOMAIN hashes) = 1
    /\ Cardinality(present) = 2

\* C4: an algorithm that cannot be resolved to a hash routine is a fatal
\* error before any scanning: the invocation fails, no file is visited, no
\* baseline is written and no diff is reported.
C4_FailFast ==
    (mode \in {"init", "check", "usage"} /\ ~Resolvable(algorithm)) =>
      /\ exit # 0
      /\ mode = "usage"
      /\ errors = <<>>
      /\ added = <<>> /\ removed = <<>> /\ changed = <<>>

\* C5: a missing root directory is fatal in both modes: the invocation ends
\* with a failure, init writes no baseline and check reports no path removed.
C5_RootMissingFatal ==
    (mode \in {"init", "check"} /\ ~rootExists) =>
      /\ exit # 0
      /\ removed = <<>>

\* C6: after an init the store holds exactly the snapshot that init
\* scanned, whatever the store held before.
C6_InitOverwrites ==
    mode = "init" =>
      /\ dbExists
      /\ load_hashes.ok
      /\ DOMAIN load_hashes.val = DOMAIN hashes
      /\ \A p \in DOMAIN hashes : load_hashes.val[p] = hashes[p]

\* a second init, run in the scanned root, after /D/a was deleted: the store
\* it hashed (the first init's) held /D/a, the one it wrote does not
C6_Witness ==
    /\ mode = "init"
    /\ inits = 2
    /\ FilePath(DB) \in DOMAIN hashes
    /\ FilePath("f1") \notin DOMAIN hashes
    /\ FilePath("f1") \in DOMAIN json_load(Tail(hashes[FilePath(DB)])).val

\* C7: load_hashes() after save_hashes(S) returns S: the same keys with the
\* same digests, the empty snapshot included.
C7_RoundTrip ==
    /\ mode # "raised"
    /\ (mode = "loaded" /\ dbExists) =>
         /\ DOMAIN old_hashes = DOMAIN hashes
         /\ \A p \in DOMAIN hashes : old_hashes[p] = hashes[p]

\* a snapshot with a backslash in a key, saved and loaded
C7_Witness ==
    /\ mode = "loaded"
    /\ dbExists
    /\ KeyPool[3] \in DOMAIN hashes
    /\ Cardinality(DOMAIN hashes) >= 2

\* C8: a check with no store does not fail and reports every scanned path
\* as added, nothing removed or changed; a check whose scan is empty
\* reports every baseline path as removed, nothing added or changed.
C8_EmptySides ==
    /\ (mode = "check" /\ ~dbExists) =>
         /\ exit = 0
         /\ old_hashes = EmptyDict
         /\ Range(added) = DOMAIN hashes
         /\ removed = <<>>
         /\ changed = <<>>
    /\ (mode = "check" /\ exit = 0 /\ DOMAIN hashes = {}) =>
         /\ Range(removed) = DOMAIN load_hashes.val
         /\ added = <<>>
         /\ changed = <<>>

\* a check before any init that found both files
C8_Witness ==
    /\ mode = "check"
    /\ ~dbExists
    /\ Len(added) = 2

\* C9: a check never creates, changes or deletes the store: the baseline it
\* loads is the snapshot of the most recent init (none when there was no
\* init), however many checks ran before, and a check repeated on the same
\* tree reports the same drift.
C9_CheckReadOnly ==
    [][ mode' = "check" =>
          /\ dbExists' = dbExists
          /\ dbText' = dbText
          /\ everInit' => (dbExists' /\ exit' = 0 /\ old_hashes' = initSnap')
          /\ ~everInit' => (~dbExists' /\ old_hashes' = EmptyDict)
          /\ (mode = "check" /\ algorithm' = algorithm) =>
               /\ Range(added') = Range(added)
               /\ Range(removed') = Range(removed)
               /\ Range(changed') = Range(changed)
      ]_vars

\* a check after an init that reports a changed file
C9_Witness ==
    /\ mode = "check"
    /\ everInit
    /\ changed # <<>>

\* C10: a check that directly follows an init with the same algorithm, the
\* tree untouched in between, reports nothing.
C10_InitThenCheckClean ==
    [][ (mode = "init" /\ mode' = "check" /\ algorithm' = algorithm) =>
          (added' = <<>> /\ removed' = <<>> /\ changed' = <<>>)
      ]_vars

===========================================================================
